---- MODULE Spec2Model ----
(***************************************************************************)
(* Perimeters and blocks of map_model/src/objects/block.rs.                *)
(*                                                                         *)
(* A Perimeter is a record [roads, interior]: roads is the Vec<RoadSideID> *)
(* (closed: first entry = last entry), interior the BTreeSet<RoadID>.      *)
(* Every function of `impl Perimeter` is an operator computed the way the  *)
(* code computes it; a panic (failed assert, index out of bounds, unwrap   *)
(* of None) and a loop that never ends are outcomes of the operator, not   *)
(* errors of the model.                                                    *)
(***************************************************************************)
EXTENDS Integers, Sequences, FiniteSets, TLC

VARIABLES
    map_id,     \* the Map the perimeters were traced on: an index of Maps, or NoMap
    perims,     \* the caller's Vec<Perimeter>: the value the last call returned
    op,         \* the last call: [name, arg]
    input,      \* the Vec<Perimeter> the last call was given
    outcome,    \* "ok", "panic" (the call aborted) or "diverge" (it never returns)
    calls,      \* the try_to_merge calls the last merge_all made, in order
    passes,     \* the number of passes of the last merge_all's outer loop
    groups,     \* the Vec<Vec<Perimeter>> the last partition_by_predicate returned
    colors,     \* the Option<Vec<usize>> the last calculate_coloring returned
    traces,     \* the single_block calls of the last tracing call, in order
    block       \* the Block the last to_block returned, if it returned one

vars ==
    <<map_id, perims, op, input, outcome, calls, passes, groups, colors, traces, block>>

----------------------------------------------------------------------------
(* Bounds of the model *)

\* roads 1..NumRoads are available to the perimeters a caller passes in
NumRoads == 4
\* the most entries of an input perimeter, the closing duplicate not counted
MaxLen == 4
\* the most perimeters of an input list
MaxPerims == 3
\* the most entries of all perimeters of an input list together
MaxEntries == 6
\* the most colors a caller asks calculate_coloring for
MaxColors == 3
\* the most roads of a Map that is made road by road
MapRoads == 3

----------------------------------------------------------------------------
(* RoadSideID *)

SideOfRoad == {"Left", "Right"}

Roads == 1..NumRoads

RoadSideID == [road : Roads, side : SideOfRoad]

Last(s) == s[Len(s)]

Range(s) == {s[i] : i \in DOMAIN s}

\* the RoadIDs of a Vec<RoadSideID>: roads.iter().map(|id| id.road).collect()
RoadSet(roads) == {roads[i].road : i \in DOMAIN roads}

Min(S) == CHOOSE x \in S : \A y \in S : x <= y

----------------------------------------------------------------------------
(* undo_invariant / restore_invariant *)

\* assert_eq!(Some(self.roads[0]), self.roads.pop()) passes
undo_ok(roads) == Len(roads) >= 1 /\ roads[1] = Last(roads)

undo_invariant(roads) == SubSeq(roads, 1, Len(roads) - 1)

\* a restore that forgets to push the first entry
restore_forgotten(roads) == roads

\* self.roads.push(self.roads[0]); indexing an empty Vec panics
restore_ok(roads) == Len(roads) >= 1

restore_invariant(roads) == Append(roads, roads[1])

\* Vec::rotate_left(1)
rotate_left(roads) == Append(Tail(roads), Head(roads))

----------------------------------------------------------------------------
(* collapse_deadends *)

Aborted(kind) == [outcome |-> kind]

\* a loop that leaves the Vec as it is
seam_unrotated(roads, k) == [outcome |-> "ok", roads |-> roads]

\* while self.roads[0].road == self.roads.last().unwrap().road { rotate_left(1) }
\* k counts the rotations made. After Len(roads) rotations the Vec is back to
\* what it was when the loop began, so the loop never ends.
RECURSIVE seam_rotate(_, _)
seam_rotate(roads, k) ==
    IF roads[1].road # Last(roads).road
    THEN [outcome |-> "ok", roads |-> roads]
    ELSE IF k = Len(roads)
    THEN Aborted("diverge")
    ELSE seam_rotate(rotate_left(roads), k + 1)

\* a scan that removes two entries only when they are next to each other in
\* the Vec it drains
RECURSIVE drain_pairs(_, _, _)
drain_pairs(rest, roads, interior) ==
    IF rest = <<>>
    THEN [roads |-> roads, interior |-> interior]
    ELSE IF Len(rest) >= 2 /\ rest[1].road = rest[2].road
    THEN drain_pairs(Tail(Tail(rest)), roads, interior \cup {rest[1].road})
    ELSE drain_pairs(Tail(rest), Append(roads, Head(rest)), interior)

\* a scan that records the dead-end but keeps its first entry in the loop
RECURSIVE drain_keep(_, _, _)
drain_keep(rest, roads, interior) ==
    IF rest = <<>>
    THEN [roads |-> roads, interior |-> interior]
    ELSE LET id == Head(rest) IN
         IF roads # <<>> /\ Last(roads).road = id.road
         THEN drain_keep(Tail(rest), roads, interior \cup {id.road})
         ELSE drain_keep(Tail(rest), Append(roads, id), interior)

\* for id in self.roads.drain(..) { ... }: roads is the local Vec being built
RECURSIVE drain(_, _, _)
drain(rest, roads, interior) ==
    IF rest = <<>>
    THEN [roads |-> roads, interior |-> interior]
    ELSE LET id == Head(rest) IN
         IF roads # <<>> /\ Last(roads).road = id.road
         THEN drain(Tail(rest), SubSeq(roads, 1, Len(roads) - 1),
                    interior \cup {id.road})
         ELSE drain(Tail(rest), Append(roads, id), interior)

\* self.roads = roads; self.restore_invariant();
collapse_drained(d) ==
    IF ~restore_ok(d.roads) THEN Aborted("panic")
    ELSE [outcome |-> "ok",
          p |-> [roads |-> restore_invariant(d.roads), interior |-> d.interior]]

\* the scan of the rotated Vec, rot being what the rotation came to
collapse_rotated(self, rot) ==
    IF rot.outcome # "ok" THEN Aborted(rot.outcome)
    ELSE collapse_drained(drain(rot.roads, <<>>, self.interior))

\* [outcome, p]: p is the perimeter as the call leaves it
collapse_deadends(self) ==
    IF ~undo_ok(self.roads) THEN Aborted("panic")
    ELSE IF undo_invariant(self.roads) = <<>> THEN Aborted("panic")   \* self.roads[0]
    ELSE collapse_rotated(self, seam_rotate(undo_invariant(self.roads), 0))

----------------------------------------------------------------------------
(* try_to_merge *)

\* roads1.intersection(&roads2)
common_roads(roads1, roads2) == RoadSet(roads1) \cap RoadSet(roads2)

\* while common.contains(&roads[0].road) || !common.contains(&roads.last().road)
\*     { roads.rotate_left(1) }
\* k counts the rotations made, as in seam_rotate.
RECURSIVE common_rotate(_, _, _)
common_rotate(roads, common, k) ==
    IF ~(roads[1].road \in common \/ Last(roads).road \notin common)
    THEN [outcome |-> "ok", roads |-> roads]
    ELSE IF k = Len(roads)
    THEN Aborted("diverge")
    ELSE common_rotate(rotate_left(roads), common, k + 1)

\* if self.roads.len() != common.len() { while ... }
rotate_to_tail(roads, common) ==
    IF Len(roads) # Cardinality(common)
    THEN common_rotate(roads, common, 0)
    ELSE [outcome |-> "ok", roads |-> roads]

\* a check that looks at the last entry only
tail_is_common_last_only(roads, common) == Last(roads).road \in common

\* for id in roads.iter().rev().take(common.len()) { if !common.contains(&id.road) .. }
tail_is_common(roads, common) ==
    \A i \in DOMAIN roads :
        i > Len(roads) - Cardinality(common) => roads[i].road \in common

\* for _ in 0..common.len() { roads.pop().unwrap(); }
snip_ok(roads, n) == Len(roads) >= n

\* a snip that takes the entries from the front of the Vec
snip_front(roads, n) == SubSeq(roads, n + 1, Len(roads))

snip(roads, n) == SubSeq(roads, 1, Len(roads) - n)

\* an append in the other order
append_swapped(roads1, roads2) == roads2 \o roads1

\* self.roads.append(&mut other.roads)
append(roads1, roads2) == roads1 \o roads2

\* an interior that forgets what the other perimeter enclosed
merged_interior_without_other(interior1, common, interior2) == interior1 \cup common

\* self.interior.extend(common); self.interior.append(&mut other.interior)
merged_interior(interior1, common, interior2) == interior1 \cup common \cup interior2

Empty == [roads |-> <<>>, interior |-> {}]

\* What a call of try_to_merge did. ret is the value returned; self and other
\* are the two perimeters as the call leaves them; snipped says that line 205
\* was reached; joined is self after line 218 (restore_invariant), before the
\* final collapse_deadends.
MergeResult(kind, ret, self, other, common, snipped, joined) ==
    [outcome |-> kind, ret |-> ret, self |-> self, other |-> other,
     common |-> common, snipped |-> snipped, joined |-> joined]

MergeAborted(kind, common, snipped, joined) ==
    MergeResult(kind, FALSE, Empty, Empty, common, snipped, joined)

\* self after line 218: the two Vecs snipped and appended, the first entry
\* pushed again
joined_perimeter(self, other, roads1, roads2, common) ==
    [roads |-> restore_invariant(append(snip(roads1, Cardinality(common)),
                                        snip(roads2, Cardinality(common)))),
     interior |-> merged_interior(self.interior, common, other.interior)]

\* self.collapse_deadends(); true: c is what the collapse of joined came to
finish_merge(common, joined, c) ==
    IF c.outcome # "ok"
    THEN MergeAborted(c.outcome, common, TRUE, joined)
    ELSE MergeResult("ok", TRUE, c.p, Empty, common, TRUE, joined)

collapse_joined(common, joined) == finish_merge(common, joined, collapse_deadends(joined))

\* lines 205-223, from the two rotated Vecs
snip_and_join(self, other, roads1, roads2, common) ==
    IF ~snip_ok(roads1, Cardinality(common)) \/ ~snip_ok(roads2, Cardinality(common))
    THEN MergeAborted("panic", common, TRUE, Empty)
    ELSE IF ~restore_ok(append(snip(roads1, Cardinality(common)),
                               snip(roads2, Cardinality(common))))
    THEN MergeAborted("panic", common, TRUE, Empty)
    ELSE collapse_joined(common, joined_perimeter(self, other, roads1, roads2, common))

\* a failure path that leaves other with the closing entry popped
fail_merge_unrestored(self, other, roads1, roads2, common) ==
    MergeResult("ok", FALSE,
                [roads |-> restore_invariant(roads1), interior |-> self.interior],
                [roads |-> roads2, interior |-> other.interior],
                common, FALSE, Empty)

\* a failure path that has popped the receiver's last entry already
fail_merge_popped(self, other, roads1, roads2, common) ==
    MergeResult("ok", FALSE,
                [roads |-> restore_invariant(IF Len(roads1) > 1 THEN snip(roads1, 1)
                                             ELSE roads1),
                 interior |-> self.interior],
                [roads |-> restore_invariant(roads2), interior |-> other.interior],
                common, FALSE, Empty)

\* self.restore_invariant(); other.restore_invariant(); return false;
fail_merge(self, other, roads1, roads2, common) ==
    IF ~restore_ok(roads1) \/ ~restore_ok(roads2)
    THEN MergeAborted("panic", common, FALSE, Empty)
    ELSE MergeResult("ok", FALSE,
                     [roads |-> restore_invariant(roads1), interior |-> self.interior],
                     [roads |-> restore_invariant(roads2), interior |-> other.interior],
                     common, FALSE, Empty)

\* lines 170-223, from the two rotated Vecs
check_and_snip(self, other, roads1, roads2, common) ==
    IF ~(tail_is_common(roads1, common) /\ tail_is_common(roads2, common))
    THEN fail_merge(self, other, roads1, roads2, common)
    ELSE snip_and_join(self, other, roads1, roads2, common)

\* lines 163-223: rot2 is what the rotation of other.roads came to
rotated_other(self, other, roads1, rot2, common) ==
    IF rot2.outcome # "ok"
    THEN MergeAborted(rot2.outcome, common, FALSE, Empty)
    ELSE check_and_snip(self, other, roads1, rot2.roads, common)

\* lines 155-223: rot1 is what the rotation of self.roads came to
rotated_self(self, other, rot1, roads2, common) ==
    IF rot1.outcome # "ok"
    THEN MergeAborted(rot1.outcome, common, FALSE, Empty)
    ELSE rotated_other(self, other, rot1.roads, rotate_to_tail(roads2, common), common)

\* lines 137-223: roads1 and roads2 are the two Vecs after undo_invariant
merge_roads(self, other, roads1, roads2, common) ==
    IF common = {}
    THEN fail_merge(self, other, roads1, roads2, common)
    ELSE rotated_self(self, other, rotate_to_tail(roads1, common), roads2, common)

try_to_merge(self, other) ==
    IF ~undo_ok(self.roads) \/ ~undo_ok(other.roads)
    THEN MergeAborted("panic", {}, FALSE, Empty)
    ELSE merge_roads(self, other, undo_invariant(self.roads), undo_invariant(other.roads),
                     common_roads(undo_invariant(self.roads),
                                  undo_invariant(other.roads)))

----------------------------------------------------------------------------
(* merge_all *)

\* for p in &mut input { p.collapse_deadends(); }: c is what the collapse of the
\* first perimeter of todo came to
RECURSIVE collapse_each(_, _)
collapsed_one(todo, done, c) ==
    IF c.outcome # "ok"
    THEN [outcome |-> c.outcome, list |-> <<>>]
    ELSE collapse_each(Tail(todo), Append(done, c.p))

collapse_each(todo, done) ==
    IF todo = <<>>
    THEN [outcome |-> "ok", list |-> done]
    ELSE collapsed_one(todo, done, collapse_deadends(Head(todo)))

\* One call of try_to_merge as merge_all makes it: the receiver is results[k]
Call(self, other, res) == [self |-> self, other |-> other, res |-> res]

\* for other in &mut results { if other.try_to_merge(&mut perimeter, ..) { continue 'INPUT } }
\* from results[k] on. Both perimeters keep what a failed call did to them.
\* t is what the call on results[k] came to.
RECURSIVE merge_into(_, _, _, _)
tried(results, k, perimeter, log, t) ==
    IF t.outcome # "ok"
    THEN [outcome |-> t.outcome, merged |-> FALSE, results |-> <<>>,
          perimeter |-> Empty, log |-> Append(log, Call(results[k], perimeter, t))]
    ELSE IF t.ret
    THEN [outcome |-> "ok", merged |-> TRUE,
          results |-> [results EXCEPT ![k] = t.self],
          perimeter |-> t.other,
          log |-> Append(log, Call(results[k], perimeter, t))]
    ELSE merge_into([results EXCEPT ![k] = t.self], k + 1, t.other,
                    Append(log, Call(results[k], perimeter, t)))

\* a loop over results that tries the first result only
merge_into_first_only(results, k, perimeter, log) ==
    IF k > Len(results) \/ k > 1
    THEN [outcome |-> "ok", merged |-> FALSE, results |-> results,
          perimeter |-> perimeter, log |-> log]
    ELSE tried(results, k, perimeter, log, try_to_merge(results[k], perimeter))

merge_into(results, k, perimeter, log) ==
    IF k > Len(results)
    THEN [outcome |-> "ok", merged |-> FALSE, results |-> results,
          perimeter |-> perimeter, log |-> log]
    ELSE tried(results, k, perimeter, log, try_to_merge(results[k], perimeter))

RECURSIVE pass(_, _, _, _, _)

\* a pass that goes on merging after a merge, whatever stepwise_debug says
placed_undebugged(todo, debug, stepwise_debug, m) ==
    IF m.outcome # "ok"
    THEN [outcome |-> m.outcome, results |-> <<>>, log |-> m.log]
    ELSE IF m.merged
    THEN pass(Tail(todo), m.results, debug, stepwise_debug, m.log)
    ELSE pass(Tail(todo), Append(m.results, m.perimeter), debug, stepwise_debug, m.log)

\* a pass that drops a perimeter that merged with nothing
placed_or_dropped(todo, debug, stepwise_debug, m) ==
    IF m.outcome # "ok"
    THEN [outcome |-> m.outcome, results |-> <<>>, log |-> m.log]
    ELSE IF m.merged
    THEN pass(Tail(todo), m.results, stepwise_debug, stepwise_debug, m.log)
    ELSE pass(Tail(todo), IF m.results = <<>> THEN <<m.perimeter>> ELSE m.results,
              debug, stepwise_debug, m.log)

\* the end of the body of 'INPUT: m is what the loop over results came to
placed(todo, debug, stepwise_debug, m) ==
    IF m.outcome # "ok"
    THEN [outcome |-> m.outcome, results |-> <<>>, log |-> m.log]
    ELSE IF m.merged
    THEN pass(Tail(todo), m.results, stepwise_debug, stepwise_debug, m.log)
    ELSE pass(Tail(todo), Append(m.results, m.perimeter), debug, stepwise_debug, m.log)

\* 'INPUT: for mut perimeter in input { ... }: todo is what is left of input
pass(todo, results, debug, stepwise_debug, log) ==
    IF todo = <<>>
    THEN [outcome |-> "ok", results |-> results, log |-> log]
    ELSE IF debug
    THEN pass(Tail(todo), Append(results, Head(todo)), debug, stepwise_debug, log)
    ELSE placed(todo, debug, stepwise_debug, merge_into(results, 1, Head(todo), log))

RECURSIVE merge_loop(_, _, _, _)

\* a loop that returns after its first pass
passed_once(num_input, stepwise_debug, n, r) ==
    IF r.outcome # "ok"
    THEN [outcome |-> r.outcome, results |-> <<>>, log |-> r.log, passes |-> n + 1]
    ELSE [outcome |-> "ok", results |-> r.results, log |-> r.log, passes |-> n + 1]

\* loop { ... if results.len() > 1 && results.len() < num_input && !stepwise_debug
\*        { input = results; continue; } return results; }
\* n counts the passes finished before this one; r is what this pass came to.
passed(num_input, stepwise_debug, n, r) ==
    IF r.outcome # "ok"
    THEN [outcome |-> r.outcome, results |-> <<>>, log |-> r.log, passes |-> n + 1]
    ELSE IF Len(r.results) > 1 /\ Len(r.results) < num_input /\ ~stepwise_debug
    THEN merge_loop(r.results, stepwise_debug, r.log, n + 1)
    ELSE [outcome |-> "ok", results |-> r.results, log |-> r.log, passes |-> n + 1]

merge_loop(list, stepwise_debug, log, n) ==
    passed(Len(list), stepwise_debug, n, pass(list, <<>>, FALSE, stepwise_debug, log))

\* the loop, c being what the collapse of every input came to
merge_collapsed(c, stepwise_debug) ==
    IF c.outcome # "ok"
    THEN [outcome |-> c.outcome, results |-> <<>>, log |-> <<>>, passes |-> 0]
    ELSE merge_loop(c.list, stepwise_debug, <<>>, 0)

merge_all(list, stepwise_debug) ==
    merge_collapsed(collapse_each(list, <<>>), stepwise_debug)

----------------------------------------------------------------------------
(* partition_by_predicate *)

\* The predicate F: Fn(RoadID) -> bool is the set of roads it holds of.

\* the indices one perimeter pushes for a road: one per entry on that road
RECURSIVE entry_pushes(_, _, _)
entry_pushes(roads, road, idx) ==
    IF roads = <<>> THEN <<>>
    ELSE (IF Head(roads).road = road THEN <<idx>> ELSE <<>>)
         \o entry_pushes(Tail(roads), road, idx)

\* road_to_perimeters[&road], built by the loop over input.iter().enumerate()
\* from index idx on
RECURSIVE road_to_perimeters(_, _, _)
road_to_perimeters(list, road, idx) ==
    IF idx > Len(list) THEN <<>>
    ELSE entry_pushes(list[idx].roads, road, idx)
         \o road_to_perimeters(list, road, idx + 1)

\* a floodfill step that never asks the predicate
RECURSIVE neighbours_unfiltered(_, _, _)
neighbours_unfiltered(list, predicate, roads) ==
    IF roads = <<>> THEN <<>>
    ELSE road_to_perimeters(list, Head(roads).road, 1)
         \o neighbours_unfiltered(list, predicate, Tail(roads))

\* for id in &input[current].roads { if predicate(id.road) { queue.extend(..) } }
RECURSIVE neighbours(_, _, _)
neighbours(list, predicate, roads) ==
    IF roads = <<>> THEN <<>>
    ELSE (IF Head(roads).road \in predicate
          THEN road_to_perimeters(list, Head(roads).road, 1)
          ELSE <<>>)
         \o neighbours(list, predicate, Tail(roads))

\* while !queue.is_empty() { let current = queue.pop().unwrap(); ... }
RECURSIVE floodfill_loop(_, _, _, _)
floodfill_loop(list, predicate, queue, visited) ==
    IF queue = <<>> THEN visited
    ELSE LET current == Last(queue)
             rest == SubSeq(queue, 1, Len(queue) - 1)
         IN
         IF current \in visited
         THEN floodfill_loop(list, predicate, rest, visited)
         ELSE floodfill_loop(list, predicate,
                             rest \o neighbours(list, predicate, list[current].roads),
                             visited \cup {current})

floodfill(list, predicate, start) == floodfill_loop(list, predicate, <<start>>, {})

\* a loop that treats only the start as finished
RECURSIVE partition_loop_forgetful(_, _, _, _, _)
partition_loop_forgetful(list, predicate, start, finished, partitions) ==
    IF start > Len(list) THEN partitions
    ELSE IF start \in finished
    THEN partition_loop_forgetful(list, predicate, start + 1, finished, partitions)
    ELSE LET partition == floodfill(list, predicate, start) IN
         partition_loop_forgetful(list, predicate, start + 1, finished \cup {start},
                                  Append(partitions, partition))

\* for start in 0..input.len() { if finished.contains(&start) { continue; } ... }
RECURSIVE partition_loop(_, _, _, _, _)
partition_loop(list, predicate, start, finished, partitions) ==
    IF start > Len(list) THEN partitions
    ELSE IF start \in finished
    THEN partition_loop(list, predicate, start + 1, finished, partitions)
    ELSE LET partition == floodfill(list, predicate, start) IN
         partition_loop(list, predicate, start + 1, finished \cup partition,
                        Append(partitions, partition))

\* the iteration order of a BTreeSet<usize>
RECURSIVE Ascending(_)
Ascending(S) ==
    IF S = {} THEN <<>> ELSE <<Min(S)>> \o Ascending(S \ {Min(S)})

\* for idx in indices { partition.push(perimeters[idx].take().unwrap()); }
\* taken is the set of indices whose Option is None already
RECURSIVE take_partition(_, _, _, _)
take_partition(list, indices, taken, partition) ==
    IF indices = <<>>
    THEN [outcome |-> "ok", taken |-> taken, partition |-> partition]
    ELSE IF Head(indices) \in taken
    THEN [outcome |-> "panic", taken |-> taken, partition |-> partition]
    ELSE take_partition(list, Tail(indices), taken \cup {Head(indices)},
                        Append(partition, list[Head(indices)]))

\* for indices in partitions { ... results.push(partition); }
\* and then: for maybe_perimeter in perimeters { assert!(maybe_perimeter.is_none()); }
RECURSIVE take_all(_, _, _, _)
take_all(list, partitions, taken, results) ==
    IF partitions = <<>>
    THEN IF taken = DOMAIN list
         THEN [outcome |-> "ok", results |-> results]
         ELSE [outcome |-> "panic", results |-> <<>>]
    ELSE LET t == take_partition(list, Ascending(Head(partitions)), taken, <<>>) IN
         IF t.outcome # "ok"
         THEN [outcome |-> "panic", results |-> <<>>]
         ELSE take_all(list, Tail(partitions), t.taken, Append(results, t.partition))

partition_by_predicate(list, predicate) ==
    take_all(list, partition_loop(list, predicate, 1, {}, <<>>), {}, <<>>)

----------------------------------------------------------------------------
(* The Map a perimeter is traced on *)

\* A Map is a record: roads[r] = [src_i, dst_i]; intersections[i] = [border,
\* roads], roads being get_roads_sorted_by_incoming_angle; lanes[l] = [road,
\* side, dst_i], side being the lane's get_nearest_side_of_road and the
\* sequence being all_lanes.

Side(road, side) == [road |-> road, side |-> side]

\* The two sides of every road at the intersection, road after road in the
\* order of the incoming angles: a road that ends here shows its right side
\* first, a road that starts here its left side.
RECURSIVE sides_of(_, _, _)
sides_of(map, i, rs) ==
    IF rs = <<>> THEN <<>>
    ELSE LET r == Head(rs) IN
         (IF map.roads[r].dst_i = i
          THEN <<Side(r, "Right"), Side(r, "Left")>>
          ELSE <<Side(r, "Left"), Side(r, "Right")>>)
         \o sides_of(map, i, Tail(rs))

get_road_sides_sorted_by_incoming_angle(map, i) ==
    sides_of(map, i, map.intersections[i].roads)

is_border(map, i) == map.intersections[i].border

\* vec[idx mod len], idx counted from 0
wraparound_get(vec, idx) == vec[(idx % Len(vec)) + 1]

\* sorted_roads.iter().position(|x| *x == current_road_side), counted from 0;
\* -1 stands for None
position(vec, x) ==
    IF \E i \in DOMAIN vec : vec[i] = x
    THEN Min({i \in DOMAIN vec : vec[i] = x}) - 1
    ELSE -1

other_endpt(map, road, i) ==
    IF map.roads[road].src_i = i THEN map.roads[road].dst_i ELSE map.roads[road].src_i

\* two-way roads rs: the forward lane on the right, the backward lane on the left
RECURSIVE TwoWayLanes(_, _)
TwoWayLanes(roads, rs) ==
    IF rs = <<>> THEN <<>>
    ELSE << [road |-> Head(rs), side |-> "Right", dst_i |-> roads[Head(rs)].dst_i],
            [road |-> Head(rs), side |-> "Left", dst_i |-> roads[Head(rs)].src_i] >>
         \o TwoWayLanes(roads, Tail(rs))

\* a one-way road: a forward lane on each side
OneWayLanes(roads, r) ==
    << [road |-> r, side |-> "Left", dst_i |-> roads[r].dst_i],
       [road |-> r, side |-> "Right", dst_i |-> roads[r].dst_i] >>

Road(src_i, dst_i) == [src_i |-> src_i, dst_i |-> dst_i]

Inner(roads) == [border |-> FALSE, roads |-> roads]

Border(roads) == [border |-> TRUE, roads |-> roads]

\* One block: a square of four roads, no dead ends, no map boundary.
\*      1 --r1--> 2
\*      ^         |
\*      r4        r2
\*      |         v
\*      4 <--r3-- 3
SquareRoads == << Road(1, 2), Road(2, 3), Road(3, 4), Road(4, 1) >>

SquareMap ==
    [roads |-> SquareRoads,
     intersections |-> << Inner(<<1, 4>>), Inner(<<1, 2>>),
                          Inner(<<2, 3>>), Inner(<<3, 4>>) >>,
     lanes |-> TwoWayLanes(SquareRoads, <<1, 2, 3, 4>>)]

\* Two adjacent squares that share road 7; road 8 leaves corner 3 for the
\* map boundary at 7.
\*      1 --r1--> 2 --r2--> 3 --r8--> 7
\*      ^         |         |
\*      r6        r7        r3
\*      |         v         v
\*      6 <--r5-- 5 <--r4-- 4
TwoSquaresRoads ==
    << Road(1, 2), Road(2, 3), Road(3, 4), Road(4, 5), Road(5, 6), Road(6, 1),
       Road(2, 5), Road(3, 7) >>

TwoSquaresIntersections ==
    << Inner(<<1, 6>>), Inner(<<1, 2, 7>>), Inner(<<2, 8, 3>>), Inner(<<3, 4>>),
       Inner(<<7, 4, 5>>), Inner(<<6, 5>>), Border(<<8>>) >>

TwoSquaresMap ==
    [roads |-> TwoSquaresRoads,
     intersections |-> TwoSquaresIntersections,
     lanes |-> TwoWayLanes(TwoSquaresRoads, <<1, 2, 3, 4, 5, 6, 7, 8>>)]

\* The two squares, the shared road being one-way and its lanes the first.
OneWayMap ==
    [roads |-> TwoSquaresRoads,
     intersections |-> TwoSquaresIntersections,
     lanes |-> OneWayLanes(TwoSquaresRoads, 7)
               \o TwoWayLanes(TwoSquaresRoads, <<1, 2, 3, 4, 5, 6, 8>>)]

\* The two squares without road 8: no map boundary.
IslandRoads == SubSeq(TwoSquaresRoads, 1, 7)

IslandMap ==
    [roads |-> IslandRoads,
     intersections |-> << Inner(<<1, 6>>), Inner(<<1, 2, 7>>), Inner(<<2, 3>>),
                          Inner(<<3, 4>>), Inner(<<7, 4, 5>>), Inner(<<6, 5>>) >>,
     lanes |-> TwoWayLanes(IslandRoads, <<1, 2, 3, 4, 5, 6, 7>>)]

\* The square with a dead-end stub, road 5, from corner 1 into the block.
StubRoads == SquareRoads \o << Road(1, 5) >>

StubMap ==
    [roads |-> StubRoads,
     intersections |-> << Inner(<<1, 5, 4>>), Inner(<<1, 2>>), Inner(<<2, 3>>),
                          Inner(<<3, 4>>), Inner(<<5>>) >>,
     lanes |-> TwoWayLanes(StubRoads, <<1, 2, 3, 4, 5>>)]

\* The square with road 5 from corner 2 out to the map boundary at 5.
BorderRoads == SquareRoads \o << Road(2, 5) >>

BorderMap ==
    [roads |-> BorderRoads,
     intersections |-> << Inner(<<1, 4>>), Inner(<<1, 5, 2>>), Inner(<<2, 3>>),
                          Inner(<<3, 4>>), Border(<<5>>) >>,
     lanes |-> TwoWayLanes(BorderRoads, <<1, 2, 3, 4, 5>>)]

\* One road with a dead end at both ends.
LoneRoads == << Road(1, 2) >>

LoneRoadMap ==
    [roads |-> LoneRoads,
     intersections |-> << Inner(<<1>>), Inner(<<1>>) >>,
     lanes |-> TwoWayLanes(LoneRoads, <<1>>)]

\* The square with a dead end of two roads, 5 and then 6, from corner 1 into
\* the block.
ChainRoads == SquareRoads \o << Road(1, 5), Road(5, 6) >>

ChainMap ==
    [roads |-> ChainRoads,
     intersections |-> << Inner(<<1, 5, 4>>), Inner(<<1, 2>>), Inner(<<2, 3>>),
                          Inner(<<3, 4>>), Inner(<<5, 6>>), Inner(<<6>>) >>,
     lanes |-> TwoWayLanes(ChainRoads, <<1, 2, 3, 4, 5, 6>>)]

\* BorderMap with two lanes on each side of road 5, the first of all lanes.
WideBorderMap ==
    [BorderMap EXCEPT !.lanes = TwoWayLanes(BorderRoads, <<5, 5, 1, 2, 3, 4>>)]

\* The stub map with a single lane on its dead-end road 5.
FootpathMap ==
    [StubMap EXCEPT !.lanes = TwoWayLanes(StubRoads, <<1, 2, 3, 4>>)
                                  \o << [road |-> 5, side |-> "Right", dst_i |-> 5] >>]

\* Two rings of two roads each, 1 and 2 between intersections 1 and 2, 4 and
\* 5 between 3 and 4, with road 3 from one ring to the other.
DumbbellMap ==
    LET roads == << Road(1, 2), Road(1, 2), Road(2, 3), Road(3, 4), Road(3, 4) >>
    IN  [roads |-> roads,
         intersections |-> << Inner(<<1, 2>>), Inner(<<1, 3, 2>>), Inner(<<3, 4, 5>>),
                              Inner(<<4, 5>>) >>,
         lanes |-> TwoWayLanes(roads, <<1, 2, 3, 4, 5>>)]

Maps ==
    << SquareMap, TwoSquaresMap, OneWayMap, IslandMap, StubMap, BorderMap,
       LoneRoadMap, ChainMap, WideBorderMap, FootpathMap, DumbbellMap >>

MapIds == DOMAIN Maps

\* Maps made road by road, for the tracer: every connected network of up to
\* MapRoads roads in which a border intersection has one road, up to a
\* renaming of roads and intersections and to the direction of a road. Each
\* road is two-way or one-way, and the roads at an intersection are in any
\* cyclic order.

InsertAt(seq, place, x) ==
    SubSeq(seq, 1, place - 1) \o <<x>> \o SubSeq(seq, place, Len(seq))

LanesOf(roads, r, one_way) ==
    IF one_way THEN OneWayLanes(roads, r) ELSE TwoWayLanes(roads, <<r>>)

\* one road between two intersections
OneRoad(src_border, dst_border, one_way) ==
    [roads |-> << Road(1, 2) >>,
     intersections |-> << [border |-> src_border, roads |-> <<1>>],
                          [border |-> dst_border, roads |-> <<1>>] >>,
     lanes |-> LanesOf(<< Road(1, 2) >>, 1, one_way)]

\* the intersections of map, road r put in at place of the roads at i
WithRoadAt(map, i, place, r) ==
    [map.intersections EXCEPT ![i] = Inner(InsertAt(@.roads, place, r))]

\* map with one more road, between its intersections a and b
Join(map, a, place_a, b, place_b, one_way) ==
    LET r == Len(map.roads) + 1
        roads == Append(map.roads, Road(a, b))
        with_a == [map EXCEPT !.intersections = WithRoadAt(map, a, place_a, r)]
    IN  [roads |-> roads,
         intersections |-> WithRoadAt(with_a, b, place_b, r),
         lanes |-> map.lanes \o LanesOf(roads, r, one_way)]

\* map with one more road, from its intersection a to a new intersection
Branch(map, a, place_a, border, one_way) ==
    LET r == Len(map.roads) + 1
        b == Len(map.intersections) + 1
        roads == Append(map.roads, Road(a, b))
    IN  [roads |-> roads,
         intersections |-> Append(WithRoadAt(map, a, place_a, r),
                                  [border |-> border, roads |-> <<r>>]),
         lanes |-> map.lanes \o LanesOf(roads, r, one_way)]

PlacesAt(map, i) == 1..Len(map.intersections[i].roads)

InnerOf(map) == {i \in DOMAIN map.intersections : ~map.intersections[i].border}

Joins(map) ==
    UNION {UNION {{Join(map, a, place_a, b, place_b, one_way) :
                      place_a \in PlacesAt(map, a), place_b \in PlacesAt(map, b),
                      one_way \in BOOLEAN} :
                  b \in {i \in InnerOf(map) : i > a}} :
           a \in InnerOf(map)}

Branches(map) ==
    UNION {{Branch(map, a, place_a, border, one_way) :
               place_a \in PlacesAt(map, a), border \in BOOLEAN,
               one_way \in BOOLEAN} :
           a \in InnerOf(map)}

RECURSIVE SetToSeq(_)
SetToSeq(S) ==
    IF S = {} THEN <<>>
    ELSE LET x == CHOOSE y \in S : TRUE IN <<x>> \o SetToSeq(S \ {x})

\* seqs[lo] \o ... \o seqs[hi]
RECURSIVE Cat(_, _, _)
Cat(seqs, lo, hi) ==
    IF lo > hi THEN <<>>
    ELSE IF lo = hi THEN seqs[lo]
    ELSE Cat(seqs, lo, (lo + hi) \div 2) \o Cat(seqs, (lo + hi) \div 2 + 1, hi)

\* every map of maps with one more road
GrowAll(maps) ==
    Cat([k \in DOMAIN maps |-> SetToSeq(Joins(maps[k]) \cup Branches(maps[k]))],
        1, Len(maps))

\* the maps of exactly n roads
RECURSIVE MapsOfRoads(_)
MapsOfRoads(n) ==
    IF n = 1
    THEN SetToSeq({OneRoad(src_border, dst_border, one_way) :
                      src_border \in BOOLEAN, dst_border \in BOOLEAN,
                      one_way \in BOOLEAN})
    ELSE GrowAll(MapsOfRoads(n - 1))

MadeMaps == Cat([n \in 1..MapRoads |-> MapsOfRoads(n)], 1, MapRoads)

\* the catalogue, then the maps made
AllMaps == Maps \o MadeMaps

\* map_id = NoMap: the caller built the perimeters itself
NoMap == 0

----------------------------------------------------------------------------
(* single_block and find_all_single_blocks *)

\* The head of the loop of single_block: the road side the walk is on and the
\* intersection it has come to
At(road_side, i) == [side |-> road_side, at |-> i]

\* a walk that ends without a Perimeter: "err" is the Err of bail!
Stopped(kind, walk) == [outcome |-> kind, p |-> Empty, walk |-> walk]

\* a choice that goes on around the intersection, past the other side
next_road_side_forward(sorted_roads, idx, current_road_side) ==
    IF wraparound_get(sorted_roads, idx + 1).road = current_road_side.road
    THEN wraparound_get(sorted_roads, idx + 2)
    ELSE wraparound_get(sorted_roads, idx + 1)

\* let mut next = *wraparound_get(&sorted_roads, idx + 1);
\* if next.road == current_road_side.road { next = *wraparound_get(&sorted_roads, idx - 1); }
next_road_side(sorted_roads, idx, current_road_side) ==
    IF wraparound_get(sorted_roads, idx + 1).road = current_road_side.road
    THEN wraparound_get(sorted_roads, idx - 1)
    ELSE wraparound_get(sorted_roads, idx + 1)

RECURSIVE trace(_, _, _, _, _, _)

\* roads.push(current_road_side) is done: next is the road side chosen
advance(map, start_road_side, current_intersection, roads, walk, next) ==
    IF next = start_road_side
    THEN [outcome |-> "ok",
          p |-> [roads |-> Append(roads, start_road_side), interior |-> {}],
          walk |-> walk]
    ELSE trace(map, start_road_side, next,
               other_endpt(map, next.road, current_intersection), roads, walk)

\* the body of the loop at an intersection that is no border
turn(map, start_road_side, current_road_side, current_intersection, roads, walk, sorted_roads, idx) ==
    IF idx = -1 THEN Stopped("panic", walk)                     \* unwrap of None
    ELSE IF wraparound_get(sorted_roads, idx + 1) = current_road_side
    THEN Stopped("panic", walk)                                 \* assert_ne!
    ELSE IF next_road_side(sorted_roads, idx, current_road_side) = current_road_side
    THEN Stopped("panic", walk)                                 \* assert_ne!
    ELSE IF /\ next_road_side(sorted_roads, idx, current_road_side).road
                   = current_road_side.road
            /\ Len(sorted_roads) # 2
    THEN Stopped("panic", walk)                                 \* assert_eq!(2, ..)
    ELSE advance(map, start_road_side, current_intersection,
                 Append(roads, current_road_side), walk,
                 next_road_side(sorted_roads, idx, current_road_side))

\* a loop that takes a border for any other intersection
trace_through_border(map, start_road_side, current_road_side, current_intersection, roads, walk) ==
    IF At(current_road_side, current_intersection) \in Range(walk)
    THEN Stopped("diverge", walk)
    ELSE turn(map, start_road_side, current_road_side, current_intersection, roads,
              Append(walk, At(current_road_side, current_intersection)),
              get_road_sides_sorted_by_incoming_angle(map, current_intersection),
              position(get_road_sides_sorted_by_incoming_angle(map, current_intersection),
                       current_road_side))

\* The loop of single_block from its head. walk holds the heads the loop has
\* been at: the loop's state is the head alone, so a head met twice is met for
\* ever.
trace(map, start_road_side, current_road_side, current_intersection, roads, walk) ==
    IF is_border(map, current_intersection)
    THEN Stopped("err", Append(walk, At(current_road_side, current_intersection)))
    ELSE IF At(current_road_side, current_intersection) \in Range(walk)
    THEN Stopped("diverge", walk)
    ELSE turn(map, start_road_side, current_road_side, current_intersection, roads,
              Append(walk, At(current_road_side, current_intersection)),
              get_road_sides_sorted_by_incoming_angle(map, current_intersection),
              position(get_road_sides_sorted_by_incoming_angle(map, current_intersection),
                       current_road_side))

get_nearest_side_of_road(map, lane) == Side(map.lanes[lane].road, map.lanes[lane].side)

single_block(map, start) ==
    trace(map, get_nearest_side_of_road(map, start), get_nearest_side_of_road(map, start),
          map.lanes[start].dst_i, <<>>, <<>>)

\* One call of single_block as find_all_single_blocks makes it
Trace(lane, side, t) ==
    [lane |-> lane, side |-> side, outcome |-> t.outcome, roads |-> t.p.roads,
     walk |-> t.walk]

RECURSIVE find_loop(_, _, _, _, _)

\* a match that leaves the seed of a failed trace unseen
traced_forgetful(map, lane, seen, perimeters, log, side, t) ==
    IF t.outcome = "ok"
    THEN find_loop(map, lane + 1, seen \cup Range(t.p.roads), Append(perimeters, t.p),
                   Append(log, Trace(lane, side, t)))
    ELSE IF t.outcome = "err"
    THEN find_loop(map, lane + 1, seen, perimeters, Append(log, Trace(lane, side, t)))
    ELSE [outcome |-> t.outcome, perimeters |-> <<>>, seen |-> seen,
          log |-> Append(log, Trace(lane, side, t))]

\* an Ok arm that does not extend seen with the boundary
traced_unmarked(map, lane, seen, perimeters, log, side, t) ==
    IF t.outcome = "ok"
    THEN find_loop(map, lane + 1, seen, Append(perimeters, t.p),
                   Append(log, Trace(lane, side, t)))
    ELSE IF t.outcome = "err"
    THEN find_loop(map, lane + 1, seen \cup {side}, perimeters,
                   Append(log, Trace(lane, side, t)))
    ELSE [outcome |-> t.outcome, perimeters |-> <<>>, seen |-> seen,
          log |-> Append(log, Trace(lane, side, t))]

\* match Perimeter::single_block(map, lane.id) { Ok(perimeter) => .., Err(err) => .. }
traced(map, lane, seen, perimeters, log, side, t) ==
    IF t.outcome = "ok"
    THEN find_loop(map, lane + 1, seen \cup Range(t.p.roads), Append(perimeters, t.p),
                   Append(log, Trace(lane, side, t)))
    ELSE IF t.outcome = "err"
    THEN find_loop(map, lane + 1, seen \cup {side}, perimeters,
                   Append(log, Trace(lane, side, t)))
    ELSE [outcome |-> t.outcome, perimeters |-> <<>>, seen |-> seen,
          log |-> Append(log, Trace(lane, side, t))]

\* for lane in map.all_lanes() { ... }, from lane on
find_loop(map, lane, seen, perimeters, log) ==
    IF lane > Len(map.lanes)
    THEN [outcome |-> "ok", perimeters |-> perimeters, seen |-> seen, log |-> log]
    ELSE IF get_nearest_side_of_road(map, lane) \in seen
    THEN find_loop(map, lane + 1, seen, perimeters, log)
    ELSE traced(map, lane, seen, perimeters, log, get_nearest_side_of_road(map, lane),
                single_block(map, lane))

find_all_single_blocks(map) == find_loop(map, 1, {}, <<>>, <<>>)

----------------------------------------------------------------------------
(* Block::from_perimeter *)

\* Pt2D. The center line of a road shifted to one side is the polyline from
\* the point of that side at src_i to the point of that side at dst_i; the
\* ring of an intersection has a point between any two of these that lie on it.
EndPt(road_side, i) == [at |-> i, side |-> road_side, to |-> road_side]

RingPt(i, from, to) == [at |-> i, side |-> from.side, to |-> to.side]

\* how far apart two points are: at one intersection, or further
dist_to(pt1, pt2) == IF pt1 = pt2 THEN 0 ELSE IF pt1.at = pt2.at THEN 1 ELSE 2

Reversed(pl) == [k \in DOMAIN pl |-> pl[Len(pl) + 1 - k]]

\* road.center_pts.must_shift_right(..) or must_shift_left(..)
shifted(map, road_side) ==
    << EndPt(road_side, map.roads[road_side.road].src_i),
       EndPt(road_side, map.roads[road_side.road].dst_i) >>

LanesOfRoad(map, road) == {l \in DOMAIN map.lanes : map.lanes[l].road = road}

\* the lane on that side of the road that is furthest from its center; the one
\* lane of a road of one lane is the outermost of both sides
get_outermost_lane(map, road_side) ==
    IF \E l \in LanesOfRoad(map, road_side.road) : map.lanes[l].side = road_side.side
    THEN Min({l \in LanesOfRoad(map, road_side.road) :
                 map.lanes[l].side = road_side.side})
    ELSE Min(LanesOfRoad(map, road_side.road))

lane_src_i(map, l) == other_endpt(map, map.lanes[l].road, map.lanes[l].dst_i)

\* lane.dir == Direction::Back
IsBack(map, l) == map.lanes[l].dst_i = map.roads[map.lanes[l].road].src_i

\* lane1.common_endpt(lane2); 0 stands for None
common_endpt(map, lane1, lane2) ==
    LET ends2 == {lane_src_i(map, lane2), map.lanes[lane2].dst_i}
        src == lane_src_i(map, lane1) \in ends2
        dst == map.lanes[lane1].dst_i \in ends2
    IN  IF src /\ dst THEN 0
        ELSE IF src THEN lane_src_i(map, lane1)
        ELSE IF dst THEN map.lanes[lane1].dst_i
        ELSE 0

\* ring.get_slice_between(pt1, pt2, longer): the points from pt1 to pt2 along
\* the ring of intersection i; <<>> stands for None
get_slice_between(i, pt1, pt2) ==
    IF pt1.at = i /\ pt2.at = i /\ pt1 # pt2
    THEN << pt1, RingPt(i, pt1, pt2), pt2 >>
    ELSE <<>>

\* Ring::new(pts): Ok for three points or more, the first equal to the last
\* and no other point twice
ring_ok(pts) ==
    /\ Len(pts) >= 3
    /\ pts[1] = Last(pts)
    /\ \A j, k \in 2..Len(pts) : pts[j] = pts[k] => j = k

\* the polyline of pair[0], in the direction of its outermost lane
lane_pl(map, pair) ==
    IF IsBack(map, get_outermost_lane(map, pair[1]))
    THEN Reversed(shifted(map, pair[1]))
    ELSE shifted(map, pair[1])

keep_lane_orientation(map, pair, lane1, lane2, pts) ==
    IF pair[1].road = pair[2].road THEN TRUE
    ELSE IF common_endpt(map, lane1, lane2) # 0
    THEN common_endpt(map, lane1, lane2) = map.lanes[lane1].dst_i
    ELSE IF pts # <<>>
    THEN dist_to(Last(pts), lane_pl(map, pair)[1])
             < dist_to(Last(pts), Last(lane_pl(map, pair)))
    ELSE TRUE

\* pts after the slice along the ring of prev_i and the polyline are added
extend(pts, prev_i, pl) ==
    (IF pts = <<>> THEN <<>> ELSE pts \o get_slice_between(prev_i, Last(pts), pl[1])) \o pl

\* the body of the loop from `let mut pl` on: keep is keep_lane_orientation
add_pair(map, pair, lane1, pts, first_intersection, keep) ==
    [outcome |-> "ok",
     pts |-> extend(pts,
                    IF keep THEN lane_src_i(map, lane1) ELSE map.lanes[lane1].dst_i,
                    IF keep THEN lane_pl(map, pair) ELSE Reversed(lane_pl(map, pair))),
     first_intersection |->
         IF first_intersection # 0 THEN first_intersection
         ELSE IF keep THEN lane_src_i(map, lane1) ELSE map.lanes[lane1].dst_i]

\* a loop body that goes on when both road sides have the same lane
trace_pair_unchecked(map, pair, lane1, lane2, pts, first_intersection) ==
    add_pair(map, pair, lane1, pts, first_intersection,
             keep_lane_orientation(map, pair, lane1, lane2, pts))

\* the body of the loop: if lane1.id == lane2.id { bail!(..) } ...
trace_pair(map, pair, lane1, lane2, pts, first_intersection) ==
    IF lane1 = lane2
    THEN [outcome |-> "err", pts |-> pts, first_intersection |-> first_intersection]
    ELSE add_pair(map, pair, lane1, pts, first_intersection,
                  keep_lane_orientation(map, pair, lane1, lane2, pts))

\* for pair in perimeter.roads.windows(2) { ... }, from the window at k on
RECURSIVE trace_pairs(_, _, _, _, _)
traced_pair(map, roads, k, t) ==
    IF t.outcome # "ok" THEN t
    ELSE trace_pairs(map, roads, k + 1, t.pts, t.first_intersection)

\* a loop that stops after the first pair
trace_first_pair(map, roads, k, pts, first_intersection) ==
    IF k >= Len(roads) \/ k > 1
    THEN [outcome |-> "ok", pts |-> pts, first_intersection |-> first_intersection]
    ELSE traced_pair(map, roads, k,
                     trace_pair(map, SubSeq(roads, k, k + 1),
                                get_outermost_lane(map, roads[k]),
                                get_outermost_lane(map, roads[k + 1]),
                                pts, first_intersection))

trace_pairs(map, roads, k, pts, first_intersection) ==
    IF k >= Len(roads)
    THEN [outcome |-> "ok", pts |-> pts, first_intersection |-> first_intersection]
    ELSE traced_pair(map, roads, k,
                     trace_pair(map, SubSeq(roads, k, k + 1),
                                get_outermost_lane(map, roads[k]),
                                get_outermost_lane(map, roads[k + 1]),
                                pts, first_intersection))

\* pts.dedup()
RECURSIVE dedup(_)
dedup(pts) ==
    IF Len(pts) < 2 THEN pts
    ELSE IF pts[1] = pts[2] THEN dedup(Tail(pts))
    ELSE <<pts[1]>> \o dedup(Tail(pts))

\* pts.push(pts[0]); pts.dedup();
close_pts(pts) == dedup(Append(pts, pts[1]))

\* Option<Block> with the Result's error: a Block is [perimeter, polygon]
NoBlock == [some |-> FALSE, perimeter |-> Empty, polygon |-> <<>>]

\* let polygon = Ring::new(pts)?.into_polygon(); Ok(Block { perimeter, polygon })
make_block(perimeter, pts) ==
    IF ring_ok(pts)
    THEN [outcome |-> "ok",
          block |-> [some |-> TRUE, perimeter |-> perimeter, polygon |-> pts]]
    ELSE [outcome |-> "err", block |-> NoBlock]

\* the code after the loop: t is what the loop came to
trace_last_piece(perimeter, t) ==
    IF t.outcome # "ok" THEN [outcome |-> t.outcome, block |-> NoBlock]
    ELSE IF t.first_intersection = 0
    THEN [outcome |-> "panic", block |-> NoBlock]        \* first_intersection.unwrap()
    ELSE make_block(perimeter,
                    close_pts(t.pts \o get_slice_between(t.first_intersection,
                                                         Last(t.pts), t.pts[1])))

from_perimeter(map, perimeter) ==
    trace_last_piece(perimeter, trace_pairs(map, perimeter.roads, 1, <<>>, 0))

to_block(self, map) == from_perimeter(map, self)

----------------------------------------------------------------------------
(* calculate_coloring *)

\* Option<Vec<usize>>
None == [some |-> FALSE, colors |-> <<>>]

Some(assigned_colors) == [some |-> TRUE, colors |-> assigned_colors]

\* for other_idx in &road_to_perimeters[&id.road] {
\*     if *other_idx < this_idx { available_colors[assigned_colors[*other_idx]] = false; } }
\* available_colors[c + 1] is the bool of color c
RECURSIVE strike(_, _, _, _)
strike(others, this_idx, assigned_colors, available_colors) ==
    IF others = <<>> THEN available_colors
    ELSE strike(Tail(others), this_idx, assigned_colors,
                IF Head(others) < this_idx
                THEN [available_colors EXCEPT ![assigned_colors[Head(others)] + 1] = FALSE]
                ELSE available_colors)

\* a search for neighbors that looks at the first road of the perimeter only
find_neighbors_first_road(list, roads, this_idx, assigned_colors, available_colors) ==
    IF roads = <<>> THEN available_colors
    ELSE strike(road_to_perimeters(list, Head(roads).road, 1), this_idx,
                assigned_colors, available_colors)

\* for id in &perimeter.roads { ... }, from the entries roads on
RECURSIVE find_neighbors(_, _, _, _, _)
find_neighbors(list, roads, this_idx, assigned_colors, available_colors) ==
    IF roads = <<>> THEN available_colors
    ELSE find_neighbors(list, Tail(roads), this_idx, assigned_colors,
                        strike(road_to_perimeters(list, Head(roads).road, 1), this_idx,
                               assigned_colors, available_colors))

\* a choice of the last color that is available
last_available(available_colors) ==
    IF \E c \in DOMAIN available_colors : available_colors[c]
    THEN CHOOSE c \in DOMAIN available_colors :
             /\ available_colors[c]
             /\ \A d \in DOMAIN available_colors : available_colors[d] => d <= c
    ELSE 0

\* available_colors.iter().position(|x| *x), counted from 1; 0 stands for None
first_available(available_colors) == position(available_colors, TRUE) + 1

\* for (this_idx, perimeter) in input.iter().enumerate() { ... }, from this_idx
\* on; color is what the search for this_idx came to
RECURSIVE color_loop(_, _, _, _)
push_color(list, num_colors, this_idx, assigned_colors, color) ==
    IF color = 0 THEN None
    ELSE color_loop(list, num_colors, this_idx + 1, Append(assigned_colors, color - 1))

color_loop(list, num_colors, this_idx, assigned_colors) ==
    IF this_idx > Len(list) THEN Some(assigned_colors)
    ELSE push_color(list, num_colors, this_idx, assigned_colors,
                    first_available(find_neighbors(list, list[this_idx].roads, this_idx,
                                                   assigned_colors,
                                                   [c \in 1..num_colors |-> TRUE])))

\* a search that tries every coloring, in whatever order
calculate_coloring_exhaustive(list, num_colors) ==
    LET valid ==
            {c \in [DOMAIN list -> 0..(num_colors - 1)] :
                \A i, j \in DOMAIN list :
                    (i < j /\ RoadSet(list[i].roads) \cap RoadSet(list[j].roads) # {})
                        => c[i] # c[j]}
    IN  IF valid = {} THEN None ELSE Some(CHOOSE c \in valid : TRUE)

calculate_coloring(list, num_colors) == color_loop(list, num_colors, 1, <<>>)

----------------------------------------------------------------------------
(* The perimeters a caller passes in *)

\* A list of closed perimeters with empty interiors, as tracing produces them:
\* every perimeter has at least two entries before the closing one, and no
\* road side is in two perimeters or twice in one. RoadIDs and sides are only
\* ever compared for equality, so of the lists that differ by a renaming of
\* the roads or by swapping the two sides of a road one is enough: read from
\* the front, roads appear in the order 1, 2, ... and each with its left side
\* first.
NextSides(flat) ==
    LET used == Range(flat)
        fresh == Roads \ RoadSet(flat)
    IN  {s \in RoadSideID : s.road \in RoadSet(flat) /\ s \notin used}
        \cup (IF fresh = {} THEN {} ELSE {Side(Min(fresh), "Left")})

RECURSIVE Flats(_)
Flats(n) ==
    IF n = 0 THEN {<<>>}
    ELSE UNION {{Append(f, s) : s \in NextSides(f)} : f \in Flats(n - 1)}

Closed(entries) == [roads |-> Append(entries, entries[1]), interior |-> {}]

\* the ways to cut flat into at most k perimeters
RECURSIVE Chop(_, _)
Chop(flat, k) ==
    IF flat = <<>> THEN {<<>>}
    ELSE IF k = 0 THEN {}
    ELSE UNION {{<<Closed(SubSeq(flat, 1, n))>> \o rest :
                    rest \in Chop(SubSeq(flat, n + 1, Len(flat)), k - 1)} :
                n \in {m \in 2..MaxLen : m <= Len(flat)}}

InputLists ==
    UNION {Chop(flat, MaxPerims) :
           flat \in UNION {Flats(n) : n \in 2..MaxEntries}}

\* Lists for calculate_coloring, which looks at the roads of the loops only:
\* one loop more than MaxPerims and one road more than NumRoads, every loop of
\* two entries.
NextSidesAmong(flat, roads) ==
    {s \in [road : RoadSet(flat), side : SideOfRoad] : s \notin Range(flat)}
        \cup (IF roads \ RoadSet(flat) = {} THEN {}
              ELSE {Side(Min(roads \ RoadSet(flat)), "Left")})

RECURSIVE ColorFlats(_)
ColorFlats(n) ==
    IF n = 0 THEN {<<>>}
    ELSE UNION {{Append(f, s) : s \in NextSidesAmong(f, 1..(NumRoads + 1))} :
                   f \in ColorFlats(n - 1)}

InPairs(flat) ==
    [i \in 1..(Len(flat) \div 2) |-> Closed(<<flat[2 * i - 1], flat[2 * i]>>)]

ColorLists == {InPairs(flat) : flat \in UNION {ColorFlats(2 * n) : n \in 1..(MaxPerims + 1)}}

----------------------------------------------------------------------------
(* The calls *)

\* a call that returned, with Ok or Err
Alive == outcome \in {"ok", "err"}

AllRoads(list) == UNION {RoadSet(list[i].roads) : i \in DOMAIN list}

Init ==
    /\ \/ map_id \in MapIds /\ perims = <<>>
       \/ map_id = NoMap /\ perims \in InputLists
    /\ op = [name |-> "new", arg |-> 0]
    /\ input = <<>>
    /\ outcome = "ok"
    /\ calls = <<>>
    /\ passes = 0
    /\ groups = <<>>
    /\ colors = None
    /\ traces = <<>>
    /\ block = NoBlock

\* what a call leaves of the variables that are not its own
Reset(name, arg, given) ==
    /\ op' = [name |-> name, arg |-> arg]
    /\ input' = given
    /\ colors' = None
    /\ block' = NoBlock
    /\ UNCHANGED map_id

\* Perimeter::single_block(map, start), t being what it came to
SingleBlockReturns(start, t) ==
    /\ traces' = <<Trace(start, get_nearest_side_of_road(AllMaps[map_id], start), t)>>
    /\ outcome' = t.outcome
    /\ perims' = IF t.outcome = "ok" THEN <<t.p>> ELSE <<>>
    /\ calls' = <<>>
    /\ passes' = 0
    /\ groups' = <<>>

SingleBlock(start) ==
    /\ Alive
    /\ map_id # NoMap
    /\ SingleBlockReturns(start, single_block(AllMaps[map_id], start))
    /\ Reset("single_block", start, <<>>)

\* Perimeter::find_all_single_blocks(map), f being what it came to
FindAllReturns(f) ==
    /\ traces' = f.log
    /\ outcome' = f.outcome
    /\ perims' = f.perimeters
    /\ calls' = <<>>
    /\ passes' = 0
    /\ groups' = <<>>

FindAllSingleBlocks ==
    /\ Alive
    /\ map_id # NoMap
    /\ FindAllReturns(find_all_single_blocks(AllMaps[map_id]))
    /\ Reset("find_all_single_blocks", 0, <<>>)

\* perims[i].collapse_deadends(), c being what it came to
CollapseReturns(i, c) ==
    /\ traces' = <<>>
    /\ outcome' = c.outcome
    /\ perims' = IF c.outcome = "ok" THEN [perims EXCEPT ![i] = c.p] ELSE <<>>
    /\ calls' = <<>>
    /\ passes' = 0
    /\ groups' = <<>>

CollapseDeadends(i) ==
    /\ Alive
    /\ CollapseReturns(i, collapse_deadends(perims[i]))
    /\ Reset("collapse_deadends", i, perims)

\* Perimeter::merge_all(perims, stepwise_debug), r being what it came to
MergeAllReturns(r) ==
    /\ traces' = <<>>
    /\ outcome' = r.outcome
    /\ perims' = r.results
    /\ calls' = r.log
    /\ passes' = r.passes
    /\ groups' = <<>>

MergeAll(stepwise_debug) ==
    /\ Alive
    /\ perims # <<>>
    /\ MergeAllReturns(merge_all(perims, stepwise_debug))
    /\ Reset("merge_all", stepwise_debug, perims)

\* Perimeter::partition_by_predicate(perims, predicate), r being what it came
\* to: the Vec is moved into the call, the caller is left with the groups
PartitionReturns(r) ==
    /\ traces' = <<>>
    /\ outcome' = r.outcome
    /\ groups' = r.results
    /\ perims' = <<>>
    /\ calls' = <<>>
    /\ passes' = 0

PartitionByPredicate(predicate) ==
    /\ Alive
    /\ perims # <<>>
    /\ PartitionReturns(partition_by_predicate(perims, predicate))
    /\ Reset("partition_by_predicate", predicate, perims)

\* Perimeter::merge_all(groups[g].clone(), stepwise_debug), r being what it came
\* to: the caller goes over the groups and keeps them
MergeGroupReturns(r) ==
    /\ traces' = <<>>
    /\ outcome' = r.outcome
    /\ perims' = r.results
    /\ calls' = r.log
    /\ passes' = r.passes
    /\ UNCHANGED groups

MergeGroup(g, stepwise_debug) ==
    /\ Alive
    /\ MergeGroupReturns(merge_all(groups[g], stepwise_debug))
    /\ Reset("merge_all", stepwise_debug, groups[g])

\* Perimeter::calculate_coloring(&perims, num_colors)
CalculateColoring(num_colors) ==
    /\ Alive
    /\ colors' = calculate_coloring(perims, num_colors)
    /\ outcome' = "ok"
    /\ op' = [name |-> "calculate_coloring", arg |-> num_colors]
    /\ input' = perims
    /\ calls' = <<>>
    /\ passes' = 0
    /\ groups' = <<>>
    /\ traces' = <<>>
    /\ block' = NoBlock
    /\ UNCHANGED <<map_id, perims>>

\* what is left of a Vec when the element at i is moved out of it
Without(list, i) == SubSeq(list, 1, i - 1) \o SubSeq(list, i + 1, Len(list))

\* perims.remove(i).to_block(map), b being what it came to
ToBlockReturns(b) ==
    /\ outcome' = b.outcome
    /\ block' = b.block
    /\ calls' = <<>>
    /\ passes' = 0
    /\ groups' = <<>>
    /\ traces' = <<>>
    /\ colors' = None

ToBlock(i) ==
    /\ Alive
    /\ map_id # NoMap
    /\ ToBlockReturns(to_block(perims[i], AllMaps[map_id]))
    /\ perims' = Without(perims, i)
    /\ op' = [name |-> "to_block", arg |-> i]
    /\ input' = perims
    /\ UNCHANGED map_id

Next ==
    \/ \E start \in IF map_id = NoMap THEN {} ELSE DOMAIN AllMaps[map_id].lanes :
           SingleBlock(start)
    \/ FindAllSingleBlocks
    \/ \E i \in DOMAIN perims : CollapseDeadends(i)
    \/ \E stepwise_debug \in BOOLEAN : MergeAll(stepwise_debug)
    \/ \E predicate \in SUBSET AllRoads(perims) : PartitionByPredicate(predicate)
    \/ \E num_colors \in 0..MaxColors : CalculateColoring(num_colors)
    \/ \E i \in DOMAIN perims : ToBlock(i)
    \/ \E g \in DOMAIN groups, stepwise_debug \in BOOLEAN : MergeGroup(g, stepwise_debug)

Spec == Init /\ [][Next]_vars

\* The tracer alone, on the catalogue and on every map made
TraceInit ==
    /\ map_id \in DOMAIN AllMaps
    /\ perims = <<>>
    /\ op = [name |-> "new", arg |-> 0]
    /\ input = <<>>
    /\ outcome = "ok"
    /\ calls = <<>>
    /\ passes = 0
    /\ groups = <<>>
    /\ colors = None
    /\ traces = <<>>
    /\ block = NoBlock

\* one call on each map: a tracing call neither reads nor leaves any state
TraceNext ==
    /\ op.name = "new"
    /\ \/ \E start \in DOMAIN AllMaps[map_id].lanes : SingleBlock(start)
       \/ FindAllSingleBlocks

TraceSpec == TraceInit /\ [][TraceNext]_vars

\* calculate_coloring alone, on the lists made for it
ColorInit ==
    /\ map_id = NoMap
    /\ perims \in ColorLists
    /\ op = [name |-> "new", arg |-> 0]
    /\ input = <<>>
    /\ outcome = "ok"
    /\ calls = <<>>
    /\ passes = 0
    /\ groups = <<>>
    /\ colors = None
    /\ traces = <<>>
    /\ block = NoBlock

\* one call on each list: calculate_coloring borrows the list and leaves it
ColorNext ==
    /\ op.name = "new"
    /\ \E num_colors \in 0..MaxColors : CalculateColoring(num_colors)

ColorSpec == ColorInit /\ [][ColorNext]_vars

\* if let Ok(p) = Perimeter::single_block(map, start) { perims.push(p); }
\* t being what the call came to
SingleBlockPushed(start, t) ==
    /\ traces' = <<Trace(start, get_nearest_side_of_road(AllMaps[map_id], start), t)>>
    /\ outcome' = t.outcome
    /\ perims' = IF t.outcome = "ok" THEN Append(perims, t.p) ELSE perims
    /\ calls' = <<>>
    /\ passes' = 0
    /\ groups' = <<>>

PushSingleBlock(start) ==
    /\ Alive
    /\ op.name \in {"new", "single_block"}
    /\ Len(perims) < MaxPerims - 1
    /\ SingleBlockPushed(start, single_block(AllMaps[map_id], start))
    /\ Reset("single_block", start, <<>>)

\* The blocks a caller traces from the lanes it picks, one by one, and then
\* merges: two lanes may be on one block.
BlocksNext ==
    \/ \E start \in DOMAIN AllMaps[map_id].lanes : PushSingleBlock(start)
    \/ \E stepwise_debug \in BOOLEAN : op.name = "single_block" /\ MergeAll(stepwise_debug)

BlocksInit == Init /\ map_id # NoMap

BlocksSpec == BlocksInit /\ [][BlocksNext]_vars

----------------------------------------------------------------------------
(* Closure and disjointness *)

IsClosed(p) == p.roads # <<>> /\ p.roads[1] = Last(p.roads)

\* the try_to_merge calls of the last merge_all that returned
Returned == {k \in DOMAIN calls : calls[k].res.outcome = "ok"}

\* C1: every perimeter a call returns has a non-empty road sequence whose
\* first entry equals its last: the perimeters single_block,
\* find_all_single_blocks, collapse_deadends and merge_all hand back, the
\* surviving perimeter of a try_to_merge that returned true, and both
\* perimeters of one that returned false.
Closure ==
    /\ outcome = "ok" => \A i \in DOMAIN perims : IsClosed(perims[i])
    /\ \A k \in Returned :
           /\ IsClosed(calls[k].res.self)
           /\ ~calls[k].res.ret => IsClosed(calls[k].res.other)

\* a merge_all that returned after one call of try_to_merge failed and a later
\* one succeeded
ClosureWitness ==
    /\ op.name = "merge_all"
    /\ outcome = "ok"
    /\ perims # <<>>
    /\ \E k, l \in Returned : k < l /\ ~calls[k].res.ret /\ calls[l].res.ret

Disjoint(p) == p.interior \cap RoadSet(p.roads) = {}

\* C2: no road of the interior set of a perimeter that single_block,
\* collapse_deadends, a successful try_to_merge or merge_all produced is the
\* road of an entry of its boundary.
InteriorDisjoint ==
    /\ outcome = "ok" => \A i \in DOMAIN perims : Disjoint(perims[i])
    /\ \A k \in Returned : calls[k].res.ret => Disjoint(calls[k].res.self)

\* a merge_all returned a perimeter that encloses a common road and a
\* collapsed dead end
InteriorDisjointWitness ==
    /\ op.name = "merge_all"
    /\ outcome = "ok"
    /\ \E k \in Returned :
           /\ calls[k].res.ret
           /\ calls[k].res.self \in Range(perims)
           /\ calls[k].res.self.interior \ calls[k].res.common # {}
           /\ calls[k].res.self.roads # <<>>

----------------------------------------------------------------------------
(* merge_all: what becomes of the input *)

\* the roads of a perimeter: those of its boundary and those it encloses
PerimRoads(p) == RoadSet(p.roads) \cup p.interior

\* the number of perimeters of the list with road r among their roads
Multiplicity(list, r) == Cardinality({i \in DOMAIN list : r \in PerimRoads(list[i])})

AllPerimRoads(list) == UNION {PerimRoads(list[i]) : i \in DOMAIN list}

MergeReturned == op.name = "merge_all" /\ outcome = "ok"

\* C3 as the spec states it: every road is among the roads of as many
\* output perimeters of merge_all as input perimeters.
ConservationMultiset ==
    MergeReturned =>
        \A r \in AllPerimRoads(input) \cup AllPerimRoads(perims) :
            Multiplicity(perims, r) = Multiplicity(input, r)

\* C3, amended: the roads of the output perimeters of merge_all, boundary and
\* interior together, are as a set the roads of the input perimeters.
ConservationSet ==
    MergeReturned => AllPerimRoads(perims) = AllPerimRoads(input)

\* a merge_all fused a perimeter that enclosed a road already
ConservationWitness ==
    /\ MergeReturned
    /\ \E k \in Returned : calls[k].res.ret /\ calls[k].other.interior # {}

\* every entry of the input perimeter is on the boundary of the output
\* perimeter or on a road the output perimeter encloses
Covers(out, in) ==
    /\ \A e \in Range(in.roads) : e \in Range(out.roads) \/ e.road \in out.interior
    /\ in.interior \subseteq out.interior

\* the output perimeters that hold something of the input perimeter
Holders(in) ==
    {o \in DOMAIN perims :
        \E e \in Range(in.roads) :
            e \in Range(perims[o].roads) \/ e.road \in perims[o].interior}

\* C4: merge_all accounts for every input perimeter exactly once: one output
\* perimeter holds all of it, on its boundary or in its interior, and no
\* other output perimeter holds any of it.
AccountedOnce ==
    MergeReturned =>
        \A i \in DOMAIN input :
            /\ Cardinality(Holders(input[i])) = 1
            /\ \A o \in Holders(input[i]) : Covers(perims[o], input[i])

\* a merge_all returned one perimeter fused from two and one as it was
AccountedOnceWitness ==
    /\ MergeReturned
    /\ Len(input) = 3
    /\ Len(perims) = 2
    /\ \E i \in DOMAIN input : input[i] \in Range(perims)

----------------------------------------------------------------------------
(* try_to_merge, as merge_all calls it *)

Open(roads) == SubSeq(roads, 1, Len(roads) - 1)

\* both are closed, and without the closing entry one is the other rotated
IsRotation(roads1, roads2) ==
    /\ Len(roads1) = Len(roads2)
    /\ Len(roads1) >= 2
    /\ roads1[1] = Last(roads1)
    /\ roads2[1] = Last(roads2)
    /\ LET n == Len(roads1) - 1 IN
       \E k \in 0..(n - 1) :
           \A i \in 1..n : roads2[i] = roads1[((i - 1 + k) % n) + 1]

CommonOf(call) == RoadSet(call.self.roads) \cap RoadSet(call.other.roads)

\* the call left both perimeters as they were, up to a rotation
Untouched(call) ==
    /\ IsRotation(call.self.roads, call.res.self.roads)
    /\ IsRotation(call.other.roads, call.res.other.roads)
    /\ RoadSet(call.res.self.roads) = RoadSet(call.self.roads)
    /\ RoadSet(call.res.other.roads) = RoadSet(call.other.roads)
    /\ call.res.self.interior = call.self.interior
    /\ call.res.other.interior = call.other.interior

\* C5: try_to_merge on two perimeters without a common road returns false and
\* leaves the boundary road sets and the interior sets of both as they were,
\* the sequences rotated at most.
DisjointMergeFails ==
    \A k \in DOMAIN calls :
        CommonOf(calls[k]) = {} =>
            /\ calls[k].res.outcome = "ok"
            /\ ~calls[k].res.ret
            /\ Untouched(calls[k])

\* merge_all tried two perimeters without a common road
DisjointMergeWitness ==
    /\ op.name = "merge_all"
    /\ \E k \in Returned : CommonOf(calls[k]) = {} /\ ~calls[k].res.ret

\* C6: whenever try_to_merge returns false, both perimeters are closed, each
\* is a rotation of what it was, and both interior sets are what they were.
FailedMergeRotatesOnly ==
    \A k \in Returned :
        ~calls[k].res.ret =>
            /\ IsClosed(calls[k].res.self)
            /\ IsClosed(calls[k].res.other)
            /\ Untouched(calls[k])

\* a try_to_merge failed on common roads that are not contiguous, and rotated
\* the receiver
FailedMergeWitness ==
    \E k \in Returned :
        /\ ~calls[k].res.ret
        /\ CommonOf(calls[k]) # {}
        /\ calls[k].res.self.roads # calls[k].self.roads

\* the entries that are not on a common road, in order
NonCommon(roads, common) ==
    LET keep(id) == id.road \notin common IN SelectSeq(roads, keep)

\* roads without its closing entry, rotated left k times
Rotated(roads, k) ==
    LET n == Len(roads) - 1 IN [i \in 1..n |-> roads[((i - 1 + k) % n) + 1]]

\* the entries on common roads come after all others
CommonLast(roads, common) ==
    \A i, j \in DOMAIN roads : i < j /\ roads[i].road \in common => roads[j].road \in common

\* C7: whenever try_to_merge returns true, the receiver's boundary before the
\* final collapse is its own entries off the common roads followed by the
\* other's, so it has |a| + |b| - 2 * |common| entries, its interior is the
\* union of both interiors and the common roads, and the other perimeter is
\* left with no roads and no interior.
MergeJoins ==
    \A k \in Returned :
        calls[k].res.ret =>
            LET a == calls[k].self
                b == calls[k].other
                common == CommonOf(calls[k])
                joined == calls[k].res.joined
            IN
            /\ IsClosed(joined)
            /\ \E i \in 0..(Len(a.roads) - 2), j \in 0..(Len(b.roads) - 2) :
                   LET ra == Rotated(a.roads, i)
                       rb == Rotated(b.roads, j)
                   IN
                   /\ CommonLast(ra, common)
                   /\ CommonLast(rb, common)
                   /\ Open(joined.roads) = NonCommon(ra, common) \o NonCommon(rb, common)
            /\ Len(Open(joined.roads))
                   = Len(Open(a.roads)) + Len(Open(b.roads)) - 2 * Cardinality(common)
            /\ joined.interior = a.interior \cup b.interior \cup common
            /\ calls[k].res.other = Empty

\* a try_to_merge joined a perimeter that enclosed a road with another, and
\* both kept entries
MergeJoinsWitness ==
    \E k \in Returned :
        /\ calls[k].res.ret
        /\ calls[k].self.interior # {}
        /\ NonCommon(Open(calls[k].self.roads), CommonOf(calls[k])) # <<>>
        /\ NonCommon(Open(calls[k].other.roads), CommonOf(calls[k])) # <<>>

\* the entries on common roads are one run of the loop: at most once is an
\* entry on a common road followed, cyclically, by one that is not
Contiguous(roads, common) ==
    LET n == Len(roads) - 1
        ends == {i \in 1..n : /\ roads[i].road \in common
                              /\ roads[(i % n) + 1].road \notin common}
    IN Cardinality(ends) <= 1

\* C8: try_to_merge returns true only when the perimeters have a common road
\* and in each of them the entries on common roads are one contiguous run; if
\* in either an entry off the common roads interrupts them, it returns false
\* and snips nothing.
HoleRejected ==
    \A k \in DOMAIN calls :
        LET common == CommonOf(calls[k])
            runs == /\ Contiguous(calls[k].self.roads, common)
                    /\ Contiguous(calls[k].other.roads, common)
        IN
        /\ calls[k].res.outcome = "ok" /\ calls[k].res.ret => common # {} /\ runs
        /\ ~runs => /\ calls[k].res.outcome = "ok"
                    /\ ~calls[k].res.ret
                    /\ ~calls[k].res.snipped
                    /\ Untouched(calls[k])

\* a try_to_merge refused two perimeters whose common roads are interrupted
HoleRejectedWitness ==
    \E k \in Returned :
        /\ ~calls[k].res.ret
        /\ ~Contiguous(calls[k].self.roads, CommonOf(calls[k]))

----------------------------------------------------------------------------
(* partition_by_predicate: the groups *)

Partitioned == op.name = "partition_by_predicate"

\* the places of the groups that hold the perimeter
Places(p) ==
    {<<g, k>> \in (DOMAIN groups) \X (DOMAIN input) :
        k \in DOMAIN groups[g] /\ groups[g][k] = p}

\* C9: partition_by_predicate returns, its final assertion passing, and every
\* input perimeter is in exactly one group, once.
PartitionExhaustive ==
    Partitioned =>
        /\ outcome = "ok"
        /\ \A i \in DOMAIN input : Cardinality(Places(input[i])) = 1
        /\ \A g \in DOMAIN groups : Range(groups[g]) \subseteq Range(input)

\* a partition into more than one group, one of them of several perimeters
PartitionExhaustiveWitness ==
    /\ Partitioned
    /\ outcome = "ok"
    /\ Len(groups) >= 2
    /\ \E g \in DOMAIN groups : Len(groups[g]) >= 2

\* two input perimeters have boundary entries on a road the predicate holds of
Adjacent(i, j) ==
    \E r \in op.arg : r \in RoadSet(input[i].roads) \cap RoadSet(input[j].roads)

\* the input perimeters to reach from those of S over adjacent perimeters
RECURSIVE Reach(_)
Reach(S) ==
    LET T == S \cup {j \in DOMAIN input : \E i \in S : Adjacent(i, j)} IN
    IF T = S THEN S ELSE Reach(T)

\* the indices of the perimeters of a group
Indices(group) == {i \in DOMAIN input : input[i] \in Range(group)}

\* C10: the groups partition_by_predicate returns are the connected components
\* of the graph on the input perimeters in which two perimeters are joined when
\* both have a boundary entry on a road the predicate holds of.
GroupsAreComponents ==
    Partitioned /\ outcome = "ok" =>
        {Indices(groups[g]) : g \in DOMAIN groups} = {Reach({i}) : i \in DOMAIN input}

\* the predicate kept two perimeters with a common road apart and put two
\* others into one group
GroupsAreComponentsWitness ==
    /\ Partitioned
    /\ outcome = "ok"
    /\ \E g \in DOMAIN groups : Len(groups[g]) >= 2
    /\ \E i, j \in DOMAIN input :
           /\ i # j
           /\ RoadSet(input[i].roads) \cap RoadSet(input[j].roads) # {}
           /\ \A g \in DOMAIN groups : ~({input[i], input[j]} \subseteq Range(groups[g]))

----------------------------------------------------------------------------
(* calculate_coloring: the colors *)

Colored == op.name = "calculate_coloring"

\* the loops i and j of the input have a boundary road in common
SharesRoad(i, j) == RoadSet(input[i].roads) \cap RoadSet(input[j].roads) # {}

\* the colors c gives to the loops before i that share a road with loop i
LowerColors(c, i) == {c[j] : j \in {n \in 1..(i - 1) : SharesRoad(i, n)}}

\* C11 Coloring validity: whenever calculate_coloring(input, k) returns
\* Some(colors), colors has one entry per input loop, every entry is in
\* [0, k), and no two distinct loops that have a boundary road in common have
\* the same color.
ColoringValid ==
    (Colored /\ colors.some) =>
        /\ Len(colors.colors) = Len(input)
        /\ \A i \in DOMAIN colors.colors : colors.colors[i] \in 0..(op.arg - 1)
        /\ \A i, j \in DOMAIN input :
               (i # j /\ SharesRoad(i, j)) => colors.colors[i] # colors.colors[j]

\* three loops, each two of them with a road in common, colored
ColoringValidWitness ==
    /\ Colored
    /\ colors.some
    /\ Len(input) = 3
    /\ \A i, j \in DOMAIN input : i # j => SharesRoad(i, j)

\* every loop of c has the least color that no earlier loop sharing a road
\* with it has
FirstFit(c) ==
    \A i \in DOMAIN c :
        /\ c[i] \notin LowerColors(c, i)
        /\ \A d \in 0..(c[i] - 1) : d \in LowerColors(c, i)

\* C12 calculate_coloring is the greedy first-fit coloring in input order:
\* loop i receives the least color in [0, k) that no lower-indexed loop sharing
\* a boundary road with it has, and the result is None exactly when for some
\* loop i the lower-indexed loops sharing a road with it, colored that way, use
\* all k colors.
GreedyFirstFit ==
    Colored =>
        IF colors.some
        THEN /\ Len(colors.colors) = Len(input)
             /\ FirstFit(colors.colors)
             /\ \A i \in DOMAIN input : colors.colors[i] < op.arg
        ELSE \E m \in 0..(Len(input) - 1) :
                 \E c \in [1..m -> 0..(op.arg - 1)] :
                     /\ FirstFit(c)
                     /\ 0..(op.arg - 1) \subseteq LowerColors(c, m + 1)

\* three loops, each two of them with a road in common, and two colors: None
GreedyFirstFitWitness ==
    /\ Colored
    /\ ~colors.some
    /\ op.arg = 2
    /\ Len(input) = 3
    /\ \A i, j \in DOMAIN input : i # j => SharesRoad(i, j)

----------------------------------------------------------------------------
(* single_block and find_all_single_blocks: the walk *)

TheMap == AllMaps[map_id]

Traced == op.name = "single_block"

\* the walk begins on the seed lane's side at the lane's destination, and goes
\* on along a road of the intersection it is at to that road's other end
IsWalk(walk, start) ==
    /\ walk # <<>>
    /\ walk[1] = At(get_nearest_side_of_road(TheMap, start), TheMap.lanes[start].dst_i)
    /\ \A k \in 1..(Len(walk) - 1) :
           /\ \E n \in DOMAIN TheMap.intersections[walk[k].at].roads :
                  TheMap.intersections[walk[k].at].roads[n] = walk[k + 1].side.road
           /\ walk[k + 1].at = other_endpt(TheMap, walk[k + 1].side.road, walk[k].at)

MetBorder(walk) == \E k \in DOMAIN walk : is_border(TheMap, walk[k].at)

\* C13 single_block fails with an error, and returns no Perimeter, whenever
\* the walk reaches a border intersection before it is back at the starting
\* road side, the seed lane's destination included; when no border
\* intersection is reached it returns a Perimeter whose first entry is the
\* seed lane's nearest road side and whose interior is empty.
BorderFails ==
    Traced =>
        /\ IsWalk(traces[1].walk, op.arg)
        /\ MetBorder(traces[1].walk) => (outcome = "err" /\ perims = <<>>)
        /\ ~MetBorder(traces[1].walk) =>
               /\ outcome = "ok"
               /\ Len(perims) = 1
               /\ perims[1].roads[1] = get_nearest_side_of_road(TheMap, op.arg)
               /\ perims[1].interior = {}
               /\ undo_invariant(perims[1].roads)
                      = [k \in DOMAIN traces[1].walk |-> traces[1].walk[k].side]

\* a walk that comes to a border after the seed lane's destination
BorderFailsWitness ==
    /\ Traced
    /\ outcome = "err"
    /\ Len(traces[1].walk) > 2
    /\ MetBorder(traces[1].walk)

\* C14 Tracer termination: on every road network and from every seed lane the
\* walk of single_block ends, at a border intersection or back at the
\* starting road side, after no more steps than the network has road sides; no
\* head of the loop is met twice.
TracerTerminates ==
    Traced =>
        /\ outcome # "diverge"
        /\ Len(traces[1].walk) <= 2 * Len(TheMap.roads)
        /\ \A j, k \in DOMAIN traces[1].walk :
               traces[1].walk[j] = traces[1].walk[k] => j = k

\* a walk along every road side of a network with an intersection of three roads
TracerTerminatesWitness ==
    /\ Traced
    /\ outcome = "ok"
    /\ Len(traces[1].walk) = 2 * Len(TheMap.roads)
    /\ \E i \in DOMAIN TheMap.intersections : Len(TheMap.intersections[i].roads) >= 3

Batch == op.name = "find_all_single_blocks"

\* the road sides marked before the k-th trace of the batch began
Marked(k) ==
    UNION {IF traces[j].outcome = "ok" THEN Range(traces[j].roads) ELSE {traces[j].side} :
           j \in 1..(k - 1)}

\* the traces of the batch that began before the loop came to lane
Before(lane) == Cardinality({k \in DOMAIN traces : traces[k].lane < lane})

\* C15 In find_all_single_blocks a failed trace does not abort the batch: its
\* seed road side is marked and gives no perimeter, the lanes after it are
\* traced, and no trace starts from a road side that is marked, by the
\* boundary of a perimeter or by an earlier failure; so each road side seeds
\* at most one trace.
BatchGoesOn ==
    Batch =>
        /\ outcome = "ok"
        /\ \A k \in DOMAIN traces :
               /\ traces[k].outcome \in {"ok", "err"}
               /\ traces[k].side = get_nearest_side_of_road(TheMap, traces[k].lane)
               /\ traces[k].side \notin Marked(k)
        /\ \A j, k \in DOMAIN traces : j < k =>
               /\ traces[j].lane < traces[k].lane
               /\ traces[j].side # traces[k].side
        /\ \A lane \in DOMAIN TheMap.lanes :
               \/ \E k \in DOMAIN traces : traces[k].lane = lane
               \/ get_nearest_side_of_road(TheMap, lane) \in Marked(Before(lane) + 1)
        /\ LET good == SelectSeq(traces, LAMBDA t : t.outcome = "ok") IN
               /\ Len(perims) = Len(good)
               /\ \A n \in DOMAIN perims : perims[n].roads = good[n].roads

\* a failed trace, a later lane on its seed side, and a trace after both
BatchGoesOnWitness ==
    /\ Batch
    /\ \E j, k \in DOMAIN traces :
           /\ j < k
           /\ traces[j].outcome = "err"
           /\ traces[k].outcome = "ok"
           /\ \E lane \in DOMAIN TheMap.lanes :
                  /\ traces[j].lane < lane
                  /\ lane < traces[k].lane
                  /\ get_nearest_side_of_road(TheMap, lane) = traces[j].side

----------------------------------------------------------------------------
(* merge_all: the passes *)

Merged == op.name = "merge_all"

\* C16 merge_all terminates for every finite input list, and makes at most as
\* many passes as there are input loops: it starts another pass only when the
\* pass just finished returned fewer loops than it was given, and more than
\* one.
MergeAllTerminates ==
    Merged =>
        /\ outcome # "diverge"
        /\ passes <= Len(input)
        /\ outcome = "ok" => Len(perims) + passes <= Len(input) + 1

----------------------------------------------------------------------------
(* collapse_deadends: what is removed *)

Collapsed == op.name = "collapse_deadends" /\ outcome = "ok"

\* the loop the call was given and the loop it left, without the closing entry
GivenRoads == Open(input[op.arg].roads)

LeftRoads == Open(perims[op.arg].roads)

Gone(k) == GivenRoads[k] \notin Range(LeftRoads)

\* the place after k in the loop
NextInLoop(k) == (k % Len(GivenRoads)) + 1

\* the entries at k and after k are a back-and-forth pattern
BackAndForth(k) ==
    /\ NextInLoop(k) # k
    /\ GivenRoads[k].road = GivenRoads[NextInLoop(k)].road

InPattern(k) ==
    \E j \in DOMAIN GivenRoads : BackAndForth(j) /\ k \in {j, NextInLoop(j)}

RECURSIVE IsSubseq(_, _)
IsSubseq(a, b) ==
    IF a = <<>> THEN TRUE
    ELSE IF b = <<>> THEN FALSE
    ELSE IF Head(a) = Head(b) THEN IsSubseq(Tail(a), Tail(b))
    ELSE IsSubseq(a, Tail(b))

----------------------------------------------------------------------------
(* Block::from_perimeter: the Block *)

Converted == op.name = "to_block"

\* the perimeter the last to_block was given
Given == input[op.arg]

\* the windows of the perimeter whose two road sides have one outermost lane
SameLane(p) ==
    {k \in 1..(Len(p.roads) - 1) :
        get_outermost_lane(TheMap, p.roads[k]) = get_outermost_lane(TheMap, p.roads[k + 1])}

\* C18: when two consecutive road sides of the perimeter have the same
\* outermost lane, from_perimeter returns an error and no Block.
SameLaneFails ==
    (Converted /\ SameLane(Given) # {}) => (outcome = "err" /\ ~block.some)

\* two sides of a road of one lane, met after an earlier pair was traced
SameLaneFailsWitness ==
    /\ Converted
    /\ outcome = "err"
    /\ \E k \in SameLane(Given) :
           /\ k > 1
           /\ Given.roads[k] # Given.roads[k + 1]
           /\ \A j \in 1..(k - 1) : j \notin SameLane(Given)

Points(polygon) == {polygon[k] : k \in DOMAIN polygon}

\* C19: the polygon of every Block from_perimeter returns starts and ends at
\* one point and has three distinct points or more.
PolygonClosure ==
    (Converted /\ outcome = "ok") =>
        /\ block.some
        /\ block.polygon # <<>>
        /\ block.polygon[1] = Last(block.polygon)
        /\ Cardinality(Points(block.polygon)) >= 3

\* a Block whose polygon goes along the ring of an intersection as well
PolygonClosureWitness ==
    /\ Converted
    /\ block.some
    /\ block.perimeter = Given
    /\ \E k \in DOMAIN block.polygon : block.polygon[k].side # block.polygon[k].to

----------------------------------------------------------------------------
(* collapse_deadends: the seam *)

\* the last call was collapse_deadends, returned or not
CollapseCalled == op.name = "collapse_deadends"

\* C21: the seam rotation at the start of collapse_deadends ends for every
\* closed perimeter, one whose entries all lie on one road included, and when
\* it ends the first and the last entry of the sequence are on different roads.
SeamRotationEnds ==
    CollapseCalled =>
        /\ outcome # "diverge"
        /\ seam_rotate(GivenRoads, 0).outcome = "ok"
        /\ seam_rotate(GivenRoads, 0).roads[1].road
               # Last(seam_rotate(GivenRoads, 0).roads).road

----------------------------------------------------------------------------
(* The boundary as a walk on the Map *)

OnMap == map_id # NoMap

\* the two intersections of a road
Ends(road) == {TheMap.roads[road].src_i, TheMap.roads[road].dst_i}

\* every two consecutive entries, the last one of the loop and the closing
\* entry included, are on roads that meet at an intersection
Linked(p) ==
    \A k \in 1..(Len(p.roads) - 1) : Ends(p.roads[k].road) \cap Ends(p.roads[k + 1].road) # {}

\* the entries of a loop whose heading is known: the next entry is on another
\* road, and the two roads meet at one intersection only
Headed(p) ==
    {k \in 1..(Len(p.roads) - 1) :
        /\ p.roads[k].road # p.roads[k + 1].road
        /\ Cardinality(Ends(p.roads[k].road) \cap Ends(p.roads[k + 1].road)) = 1}

\* the entry at k runs along its road's right side to the road's dst_i, or
\* along its left side to the road's src_i
Forward(p, k) ==
    IF p.roads[k].side = "Right"
    THEN TheMap.roads[p.roads[k].road].dst_i \in Ends(p.roads[k + 1].road)
    ELSE TheMap.roads[p.roads[k].road].src_i \in Ends(p.roads[k + 1].road)

\* the two loops go around their blocks the same way
OneConvention(p, q) ==
    \/ (\A k \in Headed(p) : Forward(p, k)) /\ (\A k \in Headed(q) : Forward(q, k))
    \/ (\A k \in Headed(p) : ~Forward(p, k)) /\ (\A k \in Headed(q) : ~Forward(q, k))

\* C22 Adjacency: every two consecutive entries of a perimeter single_block
\* returns are on roads that share an intersection; collapse_deadends keeps
\* that, and so does a try_to_merge that returns true for two loops of one
\* orientation convention, the join of the two remainders and the closing
\* join included.
AdjacencyKept ==
    OnMap =>
        /\ (Traced \/ Batch) => \A i \in DOMAIN perims : Linked(perims[i])
        /\ (Collapsed /\ Linked(input[op.arg])) => Linked(perims[op.arg])
        /\ \A k \in Returned :
               (/\ calls[k].res.ret
                /\ Linked(calls[k].self)
                /\ Linked(calls[k].other)
                /\ OneConvention(calls[k].self, calls[k].other))
                   => Linked(calls[k].res.joined) /\ Linked(calls[k].res.self)

\* two loops of one convention are joined, each giving entries to the result
AdjacencyKeptWitness ==
    /\ OnMap
    /\ Merged
    /\ outcome = "ok"
    /\ \E k \in Returned :
           /\ calls[k].res.ret
           /\ Linked(calls[k].self)
           /\ Linked(calls[k].other)
           /\ OneConvention(calls[k].self, calls[k].other)
           /\ RoadSet(calls[k].self.roads) \ calls[k].res.common # {}
           /\ RoadSet(calls[k].other.roads) \ calls[k].res.common # {}

----------------------------------------------------------------------------
(* merge_all on a group of partition_by_predicate *)

\* the last call was merge_all on a group the partition returned, every
\* merge wanted
GroupMerged == Merged /\ op.arg = FALSE /\ input \in Range(groups)

\* the calls of a pass of n perimeters in which none was merged: each
\* perimeter is tried on all that were placed before it
LastPass(n) == {k \in DOMAIN calls : k > Len(calls) - ((n * (n - 1)) \div 2)}

----------------------------------------------------------------------------
(* merge_all: one merge at a time *)

Stepwise == Merged /\ op.arg = TRUE

\* the calls of try_to_merge that returned true
Successes == {k \in Returned : calls[k].res.ret}

\* the input loop at j is the one the call at k merged into a result, and the
\* loops after it are in the output as the first collapse left them
PushedAfter(k, j) ==
    /\ IsRotation(calls[k].other.roads, collapse_deadends(input[j]).p.roads)
    /\ \A m \in j..Len(perims) : perims[m] = collapse_deadends(input[m + 1]).p

\* C24: with stepwise_debug = true merge_all makes one pass and at most one
\* successful merge: no try_to_merge is called after one that returned true,
\* the loops left are pushed as they are, and the output has as many loops as
\* the input or one fewer.
OneMergeAtATime ==
    Stepwise =>
        /\ Cardinality(Successes) <= 1
        /\ \A k \in Successes : k = Len(calls)
        /\ outcome = "ok" =>
               /\ passes = 1
               /\ Len(perims) = Len(input) - Cardinality(Successes)
               /\ \A k \in Successes : \E j \in 2..Len(input) : PushedAfter(k, j)

\* the second of three loops is merged into the first, and the third, which
\* has a road of the merged loop, is pushed untried
OneMergeAtATimeWitness ==
    /\ Stepwise
    /\ outcome = "ok"
    /\ Len(input) = 3
    /\ Len(calls) = 1
    /\ Successes = {1}
    /\ Len(perims) = 2
    /\ RoadSet(perims[1].roads) \cap RoadSet(perims[2].roads) # {}

----------------------------------------------------------------------------
(* calculate_coloring: what None means *)

\* the first-fit coloring of the first n loops of the input in input order,
\* with as many colors as it takes
RECURSIVE FirstFitOf(_)
FirstFitOf(n) ==
    IF n = 0 THEN <<>>
    ELSE Append(FirstFitOf(n - 1),
                Min({d \in 0..n : d \notin LowerColors(FirstFitOf(n - 1), n)}))

\* the number of colors the first-fit coloring of the input uses
GreedyColors == Cardinality(Range(FirstFitOf(Len(input))))

\* the loops of the input can be colored with k colors, loops with a road in
\* common differently
Colorable(k) ==
    \E c \in [DOMAIN input -> 0..(k - 1)] :
        \A i, j \in DOMAIN input : (i < j /\ SharesRoad(i, j)) => c[i] # c[j]

\* C25 Greedy coloring is order-dependent and incomplete: calculate_coloring
\* returns None exactly when the first-fit coloring in input order needs more
\* than k colors, which does not say that the loops cannot be colored with k
\* colors; a result of Some does say that they can.
NoneIsGreedyFailure ==
    Colored =>
        /\ colors.some <=> GreedyColors <= op.arg
        /\ colors.some => Colorable(op.arg)

\* None for loops that can be colored with the k colors asked for
NoneIsGreedyFailureWitness ==
    /\ Colored
    /\ ~colors.some
    /\ Colorable(op.arg)

----------------------------------------------------------------------------
(* collapse_deadends: a second call *)

\* the entry after k in the loop the call left
NextLeft(k) == (k % Len(LeftRoads)) + 1

\* C26: collapse_deadends is idempotent: a second call on the perimeter it
\* left changes neither the road sequence nor the interior; the loop it left
\* has no two entries next to each other, the last and the first included, on
\* one road.
CollapseIdempotent ==
    Collapsed =>
        /\ collapse_deadends(perims[op.arg]).outcome = "ok"
        /\ collapse_deadends(perims[op.arg]).p = perims[op.arg]
        /\ \A k \in DOMAIN LeftRoads : LeftRoads[k].road # LeftRoads[NextLeft(k)].road

----------------------------------------------------------------------------
(* find_all_single_blocks: the road sides of the perimeters *)

\* no road side is twice in the loop, the closing entry apart
NoSideTwice(p) ==
    \A j, k \in DOMAIN Open(p.roads) : p.roads[j] = p.roads[k] => j = k

\* C30: the perimeters find_all_single_blocks returns are pairwise disjoint in
\* road sides: no RoadSideID is in the boundary of two of them, and none is
\* twice in one of them apart from the closing copy of the first entry.
SidesDisjoint ==
    Batch =>
        /\ \A i \in DOMAIN perims : NoSideTwice(perims[i])
        /\ \A i, j \in DOMAIN perims :
               i # j => Range(perims[i].roads) \cap Range(perims[j].roads) = {}

\* a batch returns two perimeters that lie on the two sides of one road
SidesDisjointWitness ==
    /\ Batch
    /\ outcome = "ok"
    /\ \E i, j \in DOMAIN perims :
           i # j /\ RoadSet(perims[i].roads) \cap RoadSet(perims[j].roads) # {}

----------------------------------------------------------------------------
(* try_to_merge: the two rotations *)

\* what the rotation loop of try_to_merge comes to on the roads of p
RotationOf(p, common) == rotate_to_tail(Open(p.roads), common)

\* C27: every call of try_to_merge on two closed perimeters terminates: each
\* of the two rotation loops ends, also when a perimeter has more entries on
\* common roads than there are common roads (both sides of a common road)
\* and no entry on any other road.
RotationsEnd ==
    \A k \in DOMAIN calls :
        CommonOf(calls[k]) # {} =>
            /\ RotationOf(calls[k].self, CommonOf(calls[k])).outcome = "ok"
            /\ RotationOf(calls[k].other, CommonOf(calls[k])).outcome = "ok"
            /\ ~(calls[k].res.outcome = "diverge" /\ ~calls[k].res.snipped)

----------------------------------------------------------------------------
(* try_to_merge: what is left after the snipping *)

\* C28: a try_to_merge that gets to the snipping never aborts and never
\* leaves the surviving perimeter with an empty boundary, two loops whose
\* boundaries are all common roads included: restore_invariant and the
\* collapse_deadends after it are reached with a sequence that is not empty.
MergeLeavesEntries ==
    \A k \in DOMAIN calls :
        calls[k].res.snipped =>
            /\ calls[k].res.outcome # "panic"
            /\ calls[k].res.joined.roads # <<>>
            /\ calls[k].res.outcome = "ok" => calls[k].res.self.roads # <<>>

----------------------------------------------------------------------------
(* merge_all: nothing left to merge *)

\* C29: merge_all with stepwise_debug = false returns a fixpoint: for every
\* two perimeters of the output, the earlier one as the receiver,
\* try_to_merge would return false.
MergeAllFixpoint ==
    (Merged /\ op.arg = FALSE /\ outcome = "ok") =>
        \A i, j \in DOMAIN perims :
            i < j =>
                /\ try_to_merge(perims[i], perims[j]).outcome = "ok"
                /\ ~try_to_merge(perims[i], perims[j]).ret

\* two loops with a road in common are handed back unmerged
MergeAllFixpointWitness ==
    /\ Merged
    /\ op.arg = FALSE
    /\ outcome = "ok"
    /\ Len(perims) = 2
    /\ \E i, j \in DOMAIN perims :
           i < j /\ RoadSet(perims[i].roads) \cap RoadSet(perims[j].roads) # {}

====
